---------------------------- MODULE Spec2Model ----------------------------
(***************************************************************************)
(* Admission, queueing, retry and result-lifecycle core of                 *)
(* bot/ai_generator/gemini_utils.py, as a state machine.                   *)
(*                                                                         *)
(* The program runs on one asyncio event loop: a coroutine runs without    *)
(* interruption from one suspension point (an await that really suspends)  *)
(* to the next.  Each action below is one such uninterrupted stretch of    *)
(* one task.  Time is counted in half seconds, the smallest delay the      *)
(* program uses (asyncio.sleep(0.5)).  Texts that the program only passes  *)
(* on or measures (prompts, answers) are represented by their length;      *)
(* texts that the program searches (error messages) are sequences of       *)
(* characters.                                                             *)
(***************************************************************************)
EXTENDS Integers, Sequences, FiniteSets, TLC

---------------------------------------------------------------------------
(* Bounds of the model *)

\* number of producer tasks that call the facade
NumCallers == 3
\* number of worker tasks that may ever be created
MaxWorkers == 2
\* largest number of configured API keys
MaxKeys == 1
\* number of producer tasks that call process_prompt
NumSubmitters == 2
\* number of cleanup tasks that may ever be created
MaxCleaners == 1
\* number of values random.randint(1000, 9999) is drawn from
NumRandom == 2
\* capacity of the admission queue (100 in the source, scaled down)
MAX_QUEUE_SIZE == 2

---------------------------------------------------------------------------
(* Program constants *)

MAX_RETRIES == 3
BASE_DELAY == 2
CALL_TIMEOUT == 90
RANDOM_LOW == 1000
\* asyncio.sleep(0.5), in half seconds
POLL_SLEEP == 1
PACE_SLEEP == 1
\* concurrency limit when no key is configured
DEFAULT_CONCURRENT == 3

\* seconds to half seconds
Secs(s) == 2 * s

NoTime == -1
NoId == <<>>
NoResult == <<>>

---------------------------------------------------------------------------
(* Error texts *)

TXT_TOKENS ==
    <<"T","o","o"," ","m","a","n","y"," ","t","o","k","e","n","s"," ","i","n",
      " ","t","h","e"," ","r","e","q","u","e","s","t">>
TXT_OVERLOADED ==
    <<"5","0","3"," ","T","h","e"," ","m","o","d","e","l"," ","i","s"," ","o",
      "v","e","r","l","o","a","d","e","d">>
TXT_RATE ==
    <<"R","a","t","e"," ","l","i","m","i","t"," ","r","e","a","c","h","e","d">>
TXT_QUOTA ==
    <<"4","2","9"," ","Q","u","o","t","a"," ","e","x","c","e","e","d","e","d">>
TXT_DEADLINE ==
    <<"5","0","4"," ","D","e","a","d","l","i","n","e"," ","E","x","c","e","e",
      "d","e","d">>
TXT_TIMEOUT ==
    <<"C","o","n","n","e","c","t","i","o","n"," ","t","i","m","e","o","u","t">>
TXT_INTERNAL ==
    <<"5","0","0"," ","I","n","t","e","r","n","a","l"," ","e","r","r","o","r">>
TXT_QUOTA_TIMEOUT ==
    <<"Q","u","o","t","a"," ","c","h","e","c","k"," ","t","i","m","e","o","u",
      "t">>
TXT_TOKENS_QUOTA ==
    <<"Q","u","o","t","a",":"," ","t","o","o"," ","m","a","n","y"," ","t","o",
      "k","e","n","s">>
TXT_TOKENS_TIMEOUT ==
    <<"T","i","m","e","o","u","t",","," ","t","o","o"," ","m","a","n","y"," ",
      "t","o","k","e","n","s">>
TXT_TOKENS_RATE_DEADLINE ==
    <<"T","o","o"," ","m","a","n","y"," ","t","o","k","e","n","s",";"," ","r",
      "a","t","e"," ","l","i","m","i","t",";"," ","d","e","a","d","l","i","n",
      "e">>
TXT_ENFORCED ==
    <<"A","P","I"," ","r","e","q","u","e","s","t"," ","t","i","m","e","d"," ",
      "o","u","t"," ","a","f","t","e","r"," ","9","0"," ","s","e","c","o","n",
      "d","s">>
TXT_NOKEYS ==
    <<"N","o"," ","G","e","m","i","n","i"," ","A","P","I"," ","k","e","y","s",
      " ","a","v","a","i","l","a","b","l","e">>
PAT_TOO_MANY_TOKENS ==
    <<"t","o","o"," ","m","a","n","y"," ","t","o","k","e","n","s">>
PAT_OVERLOADED ==
    <<"o","v","e","r","l","o","a","d","e","d">>
PAT_RATE_LIMIT ==
    <<"r","a","t","e"," ","l","i","m","i","t">>
PAT_QUOTA ==
    <<"q","u","o","t","a">>
PAT_TIMEOUT ==
    <<"t","i","m","e","o","u","t">>
PAT_DEADLINE ==
    <<"d","e","a","d","l","i","n","e">>

UpperCase ==
    <<"A","B","C","D","E","F","G","H","I","J","K","L","M",
      "N","O","P","Q","R","S","T","U","V","W","X","Y","Z">>
LowerCase ==
    <<"a","b","c","d","e","f","g","h","i","j","k","l","m",
      "n","o","p","q","r","s","t","u","v","w","x","y","z">>

\* str.lower() of one character
LowerChar(ch) ==
    IF \E k \in 1..Len(UpperCase) : UpperCase[k] = ch
    THEN LowerCase[CHOOSE k \in 1..Len(UpperCase) : UpperCase[k] = ch]
    ELSE ch

\* str.lower()
Lower(s) == [k \in 1..Len(s) |-> LowerChar(s[k])]

\* pat in s
Contains(s, pat) ==
    \E k \in 1..(Len(s) - Len(pat) + 1) : SubSeq(s, k, k + Len(pat) - 1) = pat

\* the exceptions the upstream library can raise, by name
UpstreamErrors ==
    {"E_TOKENS", "E_OVERLOADED", "E_RATE", "E_QUOTA", "E_DEADLINE",
     "E_TIMEOUT", "E_INTERNAL", "E_QUOTA_TIMEOUT"}

\* upstream exceptions whose text holds keywords of several kinds
MixedErrors == {"E_TOKENS_QUOTA", "E_TOKENS_TIMEOUT", "E_TOKENS_RATE_DEADLINE"}

\* str(e)
ErrorText(e) ==
    CASE e = "E_TOKENS" -> TXT_TOKENS
      [] e = "E_OVERLOADED" -> TXT_OVERLOADED
      [] e = "E_RATE" -> TXT_RATE
      [] e = "E_QUOTA" -> TXT_QUOTA
      [] e = "E_DEADLINE" -> TXT_DEADLINE
      [] e = "E_TIMEOUT" -> TXT_TIMEOUT
      [] e = "E_INTERNAL" -> TXT_INTERNAL
      [] e = "E_QUOTA_TIMEOUT" -> TXT_QUOTA_TIMEOUT
      [] e = "E_TOKENS_QUOTA" -> TXT_TOKENS_QUOTA
      [] e = "E_TOKENS_TIMEOUT" -> TXT_TOKENS_TIMEOUT
      [] e = "E_TOKENS_RATE_DEADLINE" -> TXT_TOKENS_RATE_DEADLINE
      [] e = "E_ENFORCED" -> TXT_ENFORCED
      [] e = "E_NOKEYS" -> TXT_NOKEYS

---------------------------------------------------------------------------
(* State *)

VARIABLES
    now,                  \* the clock, in half seconds
    api_keys,             \* the configured keys, fixed at import
    sem_value,            \* free permits of request_semaphore
    sem_waiters,          \* tasks suspended in request_semaphore.acquire()
    request_queue,        \* items of request_queue, oldest first
    request_results,      \* request id -> record
    queue_worker_running,
    current_queue_size,
    queue_worker_task,    \* _queue_worker_task: 0 (None) or a worker task
    cleanup_task,         \* _cleanup_task: 0 (None) or a cleanup task
    workers,              \* the queue_worker() tasks
    cleaners,             \* the cleanup_old_results() tasks
    callers,              \* the producer tasks
    inv,                  \* per task: its process_prompt_direct invocation
    n_requests,           \* process_prompt calls issued so far
    n_direct,             \* process_prompt_direct calls issued by producers
    writes,               \* per admitted request: the terminal statuses
                          \* written for it, in order
    upstream_calls        \* per admitted request: the upstream calls made

vars ==
    <<now, api_keys, sem_value, sem_waiters, request_queue, request_results,
      queue_worker_running, current_queue_size, queue_worker_task,
      cleanup_task, workers, cleaners, callers, inv, n_requests, n_direct,
      writes, upstream_calls>>

Callers == 1..NumCallers
Submitters == 1..NumSubmitters
Workers == (NumCallers + 1)..(NumCallers + MaxWorkers)
Tasks == Callers \cup Workers

\* prompts and answers, by length
Messages == {3, 6}
Answers == {5}
\* bot.py: 1 for an admin, 2 for a premium user, 3 for a regular user; the
\* first producer is an admin, the others are regular users
Priority(c) == IF c = 1 THEN 1 ELSE 3
\* the timeout argument of process_prompt, in half seconds
Timeouts == {Secs(1)}
\* random.uniform(0, 1), rounded down to half seconds
Jitters == {0, 1}
RandomInts == RANDOM_LOW..(RANDOM_LOW + NumRandom - 1)

Min(S) == CHOOSE x \in S : \A y \in S : x <= y

---------------------------------------------------------------------------
(* Exceptions *)

\* A message is a fixed text followed by str() of an upstream error ("" for
\* none); cause is the exception named after "from".
Text(s) == <<s, "">>
Exc(type, msg, cause) == [type |-> type, msg |-> msg, cause |-> cause]
NoExc == Exc("", Text(""), "")
\* a normal return, where a caller records how its call ended
Return == Exc("return", Text(""), "")

---------------------------------------------------------------------------
(* process_prompt_direct: the retry coordinator under the semaphore *)

\* Ghost fields: attempts (upstream calls issued), delays (backoff sleeps
\* taken), errs (failures seen), keys (the key configured for each upstream
\* call), outcome (how the last invocation ended).
NoInv ==
    [phase |-> "none", message |-> 0, retry_count |-> 0, call_start |-> NoTime,
     wake |-> NoTime, attempts |-> 0, delays |-> <<>>, errs |-> <<>>,
     keys |-> <<>>, outcome |-> ""]

\* MAX_CONCURRENT_REQUESTS
MaxConcurrent(keys) == IF Len(keys) > 0 THEN Len(keys) * 2 ELSE DEFAULT_CONCURRENT

\* one uninterrupted stretch of an invocation: the invocation afterwards,
\* and what it returned or raised if it ended
\* (called: the stretch ends in an upstream call)
Suspended(i) ==
    [inv |-> i, ended |-> FALSE, called |-> FALSE, result |-> NoResult,
     exc |-> NoExc]
Calling(i) == [Suspended(i) EXCEPT !.called = TRUE]
Returned(i, res) ==
    [inv |-> [i EXCEPT !.phase = "done", !.outcome = "ok"],
     ended |-> TRUE, called |-> FALSE, result |-> res, exc |-> NoExc]
Raised(i, exc) ==
    [inv |-> [i EXCEPT !.phase = "done", !.outcome = exc.type],
     ended |-> TRUE, called |-> FALSE, result |-> NoResult, exc |-> exc]

\* a final classification that looks for a timeout first
FinalErrorTimeoutFirst(e) ==
    LET m == Lower(ErrorText(e)) IN
    IF Contains(m, PAT_TIMEOUT) \/ Contains(m, PAT_DEADLINE)
    THEN Exc("TimeoutError",
             Text("Request to the model timed out. Please try again."), e)
    ELSE IF Contains(m, PAT_OVERLOADED) \/ Contains(m, PAT_RATE_LIMIT)
              \/ Contains(m, PAT_QUOTA)
    THEN Exc("OverflowError",
             Text("That model is currently overloaded with other requests."), e)
    ELSE Exc("RuntimeError", <<"Error with Gemini API after 3 attempts: ", e>>, e)

\* the error of the final attempt, by its lowered text
FinalError(e) ==
    LET m == Lower(ErrorText(e)) IN
    IF Contains(m, PAT_OVERLOADED) \/ Contains(m, PAT_RATE_LIMIT)
         \/ Contains(m, PAT_QUOTA)
    THEN Exc("OverflowError",
             Text("That model is currently overloaded with other requests."), e)
    ELSE IF Contains(m, PAT_TIMEOUT) \/ Contains(m, PAT_DEADLINE)
    THEN Exc("TimeoutError",
             Text("Request to the model timed out. Please try again."), e)
    ELSE Exc("RuntimeError", <<"Error with Gemini API after 3 attempts: ", e>>, e)

\* a backoff that does not grow
BackoffDelayFlat(retry_count, jitter) == Secs(BASE_DELAY) + jitter

\* delay of the backoff sleep after the retry_count-th failure
BackoffDelay(retry_count, jitter) ==
    Secs(BASE_DELAY * (2 ^ (retry_count - 1))) + jitter

\* an except branch that retries a payload that is too large like any
\* other failure
OnFailureRetryAll(i, e, jitter) ==
    LET rc == i.retry_count + 1
        j == [i EXCEPT !.retry_count = rc, !.errs = Append(@, e),
                       !.call_start = NoTime]
    IN  IF rc < MAX_RETRIES
        THEN IF Len(api_keys) = 0
             THEN Raised(j, Exc("ValueError", Text("No Gemini API keys available"), ""))
             ELSE LET d == BackoffDelay(rc, jitter) IN
                  Suspended([j EXCEPT !.phase = "sleep", !.wake = now + d,
                                      !.delays = Append(@, d)])
        ELSE Raised(j, FinalError(e))

\* the except branch: attempt of invocation i failed with e
OnFailure(i, e, jitter) ==
    LET rc == i.retry_count + 1
        j == [i EXCEPT !.retry_count = rc, !.errs = Append(@, e),
                       !.call_start = NoTime]
    IN  IF Contains(Lower(ErrorText(e)), PAT_TOO_MANY_TOKENS)
        THEN Raised(j, Exc("ValueError", Text("Too many tokens to make completion"), e))
        ELSE IF rc < MAX_RETRIES
        THEN IF Len(api_keys) = 0
             THEN Raised(j, Exc("ValueError", Text("No Gemini API keys available"), ""))
             ELSE LET d == BackoffDelay(rc, jitter) IN
                  Suspended([j EXCEPT !.phase = "sleep", !.wake = now + d,
                                      !.delays = Append(@, d)])
        ELSE Raised(j, FinalError(e))

\* what random.choice(api_keys) can draw: a position of the list (0 where
\* the list is empty and nothing is drawn)
KeyDraws == IF Len(api_keys) = 0 THEN {0} ELSE 1..Len(api_keys)

\* get_random_api_key() with draw r
get_random_api_key(r) == api_keys[r]

\* the try branch up to the upstream call, with draw r for its key
StartAttempt(i, r) ==
    IF Len(api_keys) = 0
    THEN OnFailure(i, "E_NOKEYS", 0)
    ELSE Calling([i EXCEPT !.phase = "call", !.call_start = now,
                           !.wake = NoTime, !.attempts = @ + 1,
                           !.keys = Append(@, get_random_api_key(r))])

\* token estimate of a successful call
TokenEstimate(message, answer) == (message \div 4) + (answer \div 4)

\* the upstream call of invocation i returned answer
OnSuccess(i, answer) ==
    Returned([i EXCEPT !.call_start = NoTime],
             <<answer, TokenEstimate(i.message, answer)>>)

---------------------------------------------------------------------------
(* Records of the result store.  A key the source leaves out of a record   *)
(* (queued_at, completed_at, error_type) holds NoTime or "".               *)

QueuedRecord ==
    [status |-> "queued", queued_at |-> now, completed_at |-> NoTime,
     result |-> NoResult, error |-> Text(""), error_type |-> ""]

CompletedRecord(res) ==
    [status |-> "completed", queued_at |-> NoTime, completed_at |-> now,
     result |-> res, error |-> Text(""), error_type |-> ""]

ErrorRecord(exc) ==
    [status |-> "error", queued_at |-> NoTime, completed_at |-> now,
     result |-> NoResult, error |-> exc.msg, error_type |-> exc.type]

\* d[k] = v
Put(d, k, v) == [x \in (DOMAIN d) \cup {k} |-> IF x = k THEN v ELSE d[x]]
\* del d[k]
Del(d, k) == [x \in (DOMAIN d) \ {k} |-> d[x]]

\* seq numbers the admitted requests in the order of their admission; the
\* program has no such field
IdleWorker(pc) == [pc |-> pc, req |-> NoId, seq |-> 0, wake |-> NoTime]
IdleCaller(ret, val) ==
    [pc |-> "idle", request_id |-> NoId, seq |-> 0, start_time |-> NoTime,
     timeout |-> 0, wake |-> NoTime, ret |-> ret, val |-> val]

\* a terminal status is written for request seq
Wrote(seq, status) == [writes EXCEPT ![seq] = Append(@, status)]

\* the ways the keys can be configured
KeyLists == {[k \in 1..n |-> k] : n \in 0..MaxKeys}

\* the state after import, with one of the key lists of keys
InitWith(keys) ==
    /\ now = 0
    /\ api_keys \in keys
    /\ sem_value = MaxConcurrent(api_keys)
    /\ sem_waiters = <<>>
    /\ request_queue = <<>>
    /\ request_results = <<>>
    /\ queue_worker_running = FALSE
    /\ current_queue_size = 0
    /\ queue_worker_task = 0
    /\ cleanup_task = 0
    /\ workers = [w \in Workers |-> IdleWorker("unborn")]
    /\ cleaners = <<>>
    /\ callers = [c \in Callers |-> IdleCaller(NoExc, <<>>)]
    /\ inv = [t \in Tasks |-> NoInv]
    /\ n_requests = 0
    /\ n_direct = 0
    /\ writes = <<>>
    /\ upstream_calls = <<>>

---------------------------------------------------------------------------
(* What the caller of process_prompt_direct does with step r of it *)

\* a worker whose loop ends at the first failure of a request, with no
\* record written
WorkerResumeCrash(w, req, r) ==
    /\ IF r.ended /\ r.exc # NoExc
       THEN /\ request_results' = request_results
            /\ writes' = writes
            /\ workers' = [workers EXCEPT
                              ![w] = [pc |-> "stopped", req |-> NoId, seq |-> 0,
                                      wake |-> NoTime]]
       ELSE IF r.ended
       THEN /\ request_results' =
                  Put(request_results, req.id, CompletedRecord(r.result))
            /\ writes' = Wrote(req.seq, "completed")
            /\ workers' = [workers EXCEPT
                              ![w] = [pc |-> "pace", req |-> NoId, seq |-> 0,
                                      wake |-> now + PACE_SLEEP]]
       ELSE /\ request_results' = request_results
            /\ writes' = writes
            /\ workers' = [workers EXCEPT
                              ![w] = [pc |-> "exec", req |-> req.id,
                                      seq |-> req.seq, wake |-> NoTime]]
    /\ upstream_calls' =
          IF r.called THEN [upstream_calls EXCEPT ![req.seq] = @ + 1]
          ELSE upstream_calls
    /\ callers' = callers

\* queue_worker: the try around process_prompt_direct, task_done and the
\* pacing sleep
WorkerResume(w, req, r) ==
    /\ IF r.ended
       THEN /\ request_results' =
                  Put(request_results, req.id,
                      IF r.exc = NoExc THEN CompletedRecord(r.result)
                                       ELSE ErrorRecord(r.exc))
            /\ writes' = Wrote(req.seq,
                               IF r.exc = NoExc THEN "completed" ELSE "error")
            /\ workers' = [workers EXCEPT
                              ![w] = [pc |-> "pace", req |-> NoId, seq |-> 0,
                                      wake |-> now + PACE_SLEEP]]
       ELSE /\ request_results' = request_results
            /\ writes' = writes
            /\ workers' = [workers EXCEPT
                              ![w] = [pc |-> "exec", req |-> req.id,
                                      seq |-> req.seq, wake |-> NoTime]]
    /\ upstream_calls' =
          IF r.called THEN [upstream_calls EXCEPT ![req.seq] = @ + 1]
          ELSE upstream_calls
    /\ callers' = callers

\* a producer that awaits process_prompt_direct itself
CallerResume(c, r) ==
    /\ callers' = [callers EXCEPT
                      ![c] = IF r.ended
                             THEN IdleCaller(IF r.exc = NoExc THEN Return ELSE r.exc,
                                             r.result)
                             ELSE [@ EXCEPT !.pc = "direct"]]
    /\ workers' = workers
    /\ request_results' = request_results
    /\ writes' = writes
    /\ upstream_calls' = upstream_calls

\* task t made step r of its invocation, holding a permit that leaves value
\* permits free; req is the worker's request
Resume(t, req, r, value, waiters) ==
    /\ inv' = [inv EXCEPT ![t] = r.inv]
    /\ sem_value' = IF r.ended THEN value + 1 ELSE value
    /\ sem_waiters' = waiters
    /\ IF t \in Workers THEN WorkerResume(t, req, r) ELSE CallerResume(t, r)

\* an acquire that does not look at the permits left
CanAcquireAnyway == sem_waiters = <<>>

\* request_semaphore.acquire() returns without suspending
CanAcquire == sem_value > 0 /\ sem_waiters = <<>>

\* async with request_semaphore, then the first attempt
Begin(t, req, message) ==
    LET i == [NoInv EXCEPT !.message = message] IN
    IF CanAcquire
    THEN \E r \in KeyDraws :
            Resume(t, req, StartAttempt(i, r), sem_value - 1, sem_waiters)
    ELSE /\ inv' = [inv EXCEPT ![t] = [i EXCEPT !.phase = "acquire"]]
         /\ sem_waiters' = Append(sem_waiters, t)
         /\ sem_value' = sem_value
         /\ IF t \in Workers
            THEN WorkerResume(t, req, Suspended(i))
            ELSE CallerResume(t, Suspended(i))

NoReq == [id |-> NoId, seq |-> 0]
ReqOf(t) ==
    IF t \in Workers THEN [id |-> workers[t].req, seq |-> workers[t].seq]
    ELSE NoReq

\* a permit was released and t is the first waiter
AcquireWake(t) ==
    /\ inv[t].phase = "acquire"
    /\ sem_value > 0
    /\ Head(sem_waiters) = t
    /\ \E r \in KeyDraws :
          Resume(t, ReqOf(t), StartAttempt(inv[t], r), sem_value - 1,
                 Tail(sem_waiters))
    /\ UNCHANGED <<now, api_keys, request_queue, queue_worker_running,
                   current_queue_size, queue_worker_task, cleanup_task,
                   cleaners, n_requests, n_direct>>

\* the upstream call of t returns an answer
UpstreamSuccess(t, answer) ==
    /\ inv[t].phase = "call"
    /\ Resume(t, ReqOf(t), OnSuccess(inv[t], answer), sem_value, sem_waiters)
    /\ UNCHANGED <<now, api_keys, request_queue, queue_worker_running,
                   current_queue_size, queue_worker_task, cleanup_task,
                   cleaners, n_requests, n_direct>>

\* the upstream call of t raises e
UpstreamFail(t, e, jitter) ==
    /\ inv[t].phase = "call"
    /\ Resume(t, ReqOf(t), OnFailure(inv[t], e, jitter), sem_value, sem_waiters)
    /\ UNCHANGED <<now, api_keys, request_queue, queue_worker_running,
                   current_queue_size, queue_worker_task, cleanup_task,
                   cleaners, n_requests, n_direct>>

\* asyncio.wait_for ends the upstream call of t after 90 seconds
UpstreamTimeout(t, jitter) ==
    /\ inv[t].phase = "call"
    /\ now >= inv[t].call_start + Secs(CALL_TIMEOUT)
    /\ Resume(t, ReqOf(t), OnFailure(inv[t], "E_ENFORCED", jitter),
              sem_value, sem_waiters)
    /\ UNCHANGED <<now, api_keys, request_queue, queue_worker_running,
                   current_queue_size, queue_worker_task, cleanup_task,
                   cleaners, n_requests, n_direct>>

\* the backoff sleep of t is over: next attempt
BackoffWake(t) ==
    /\ inv[t].phase = "sleep"
    /\ now >= inv[t].wake
    /\ \E r \in KeyDraws :
          Resume(t, ReqOf(t), StartAttempt(inv[t], r), sem_value, sem_waiters)
    /\ UNCHANGED <<now, api_keys, request_queue, queue_worker_running,
                   current_queue_size, queue_worker_task, cleanup_task,
                   cleaners, n_requests, n_direct>>

\* a producer calls process_prompt_direct(message)
DirectCall(c, message) ==
    /\ callers[c].pc = "idle"
    /\ n_direct' = n_direct + 1
    /\ Begin(c, NoReq, message)
    /\ UNCHANGED <<now, api_keys, request_queue, queue_worker_running,
                   current_queue_size, queue_worker_task, cleanup_task,
                   cleaners, n_requests>>

---------------------------------------------------------------------------
(* process_prompt: the facade's submit *)

Unborn == {w \in Workers : workers[w].pc = "unborn"}

QueueFull ==
    Exc("OverflowError",
        Text("Tizim hozir juda band. Iltimos, keyinroq qayta urinib ko'ring."), "")
WaitTimeout ==
    Exc("TimeoutError",
        Text("So'rov vaqti tugadi. Iltimos, keyinroq qayta urinib ko'ring."), "")

\* the request id: time in whole seconds and a random number
RequestId(r) == <<now \div 2, r>>

\* a re-raise that forgets the type of the stored error
StoredErrorUntyped(data) == Exc("RuntimeError", data.error, "")

\* the exception process_prompt raises for an error record
StoredError(data) ==
    Exc(IF data.error_type \in {"ValueError", "OverflowError", "TimeoutError"}
        THEN data.error_type ELSE "RuntimeError",
        data.error, "")

\* a timeout branch that leaves the record as it is
TimeoutReachedUnmarked(c, id, seq, results, log) ==
    /\ request_results' = results
    /\ writes' = log
    /\ callers' = [callers EXCEPT ![c] = IdleCaller(WaitTimeout, <<>>)]

\* a timeout branch that drops the record of the request
TimeoutReachedDropping(c, id, seq, results, log) ==
    /\ request_results' = Del(results, id)
    /\ writes' = [log EXCEPT ![seq] = Append(@, "timeout")]
    /\ callers' = [callers EXCEPT ![c] = IdleCaller(WaitTimeout, <<>>)]

\* the timeout branch after the wait loop
TimeoutReached(c, id, seq, results, log) ==
    /\ request_results' =
          IF id \in DOMAIN results
          THEN [results EXCEPT ![id].status = "timeout"]
          ELSE results
    /\ writes' =
          IF id \in DOMAIN results
          THEN [log EXCEPT ![seq] = Append(@, "timeout")]
          ELSE log
    /\ callers' = [callers EXCEPT ![c] = IdleCaller(WaitTimeout, <<>>)]

\* a capacity test that lets one request too many in
QueueIsFullOffByOne == current_queue_size > MAX_QUEUE_SIZE

\* the capacity test of process_prompt
QueueIsFull == current_queue_size >= MAX_QUEUE_SIZE

\* a submit that puts the request into the queue and leaves the queued
\* record for later
SubmitRecordLater(c, message, priority, wait, timeout, r) ==
    LET start == ~queue_worker_running /\ queue_worker_task = 0
        w == Min(Unborn)
        id == RequestId(r)
        admitted == request_results
        seq == Len(writes) + 1
        log == Append(writes, <<>>)
    IN
    /\ callers[c].pc = "idle"
    /\ n_requests' = n_requests + 1
    /\ upstream_calls' =
          IF QueueIsFull THEN upstream_calls ELSE Append(upstream_calls, 0)
    /\ IF start
       THEN /\ queue_worker_task' = w
            /\ workers' = [workers EXCEPT ![w] = IdleWorker("new")]
       ELSE UNCHANGED <<queue_worker_task, workers>>
    /\ IF QueueIsFull
       THEN /\ callers' = [callers EXCEPT ![c] = IdleCaller(QueueFull, <<>>)]
            /\ UNCHANGED <<current_queue_size, request_queue, request_results,
                           writes>>
       ELSE /\ current_queue_size' = current_queue_size + 1
            /\ request_queue' =
                  Append(request_queue,
                         [id |-> id, message |-> message, priority |-> priority,
                          seq |-> seq])
            /\ IF ~wait
               THEN /\ request_results' = admitted
                    /\ writes' = log
                    /\ callers' = [callers EXCEPT ![c] = IdleCaller(Return, id)]
               ELSE IF ~(0 < timeout)
               THEN TimeoutReached(c, id, seq, admitted, log)
               ELSE /\ request_results' = admitted
                    /\ writes' = log
                    /\ callers' = [callers EXCEPT
                                      ![c] = [pc |-> "poll", request_id |-> id,
                                              seq |-> seq,
                                              start_time |-> now,
                                              timeout |-> timeout,
                                              wake |-> now + POLL_SLEEP,
                                              ret |-> NoExc, val |-> <<>>]]
    /\ UNCHANGED <<now, api_keys, sem_value, sem_waiters, queue_worker_running,
                   cleanup_task, cleaners, inv, n_direct>>

\* process_prompt up to its first suspension, or to its end
Submit(c, message, priority, wait, timeout, r) ==
    LET start == ~queue_worker_running /\ queue_worker_task = 0
        w == Min(Unborn)
        id == RequestId(r)
        admitted == Put(request_results, id, QueuedRecord)
        seq == Len(writes) + 1
        log == Append(writes, <<>>)
    IN
    /\ callers[c].pc = "idle"
    /\ n_requests' = n_requests + 1
    /\ upstream_calls' =
          IF QueueIsFull THEN upstream_calls ELSE Append(upstream_calls, 0)
    /\ IF start
       THEN /\ queue_worker_task' = w
            /\ workers' = [workers EXCEPT ![w] = IdleWorker("new")]
       ELSE UNCHANGED <<queue_worker_task, workers>>
    /\ IF QueueIsFull
       THEN /\ callers' = [callers EXCEPT ![c] = IdleCaller(QueueFull, <<>>)]
            /\ UNCHANGED <<current_queue_size, request_queue, request_results,
                           writes>>
       ELSE /\ current_queue_size' = current_queue_size + 1
            /\ request_queue' =
                  Append(request_queue,
                         [id |-> id, message |-> message, priority |-> priority,
                          seq |-> seq])
            /\ IF ~wait
               THEN /\ request_results' = admitted
                    /\ writes' = log
                    /\ callers' = [callers EXCEPT ![c] = IdleCaller(Return, id)]
               ELSE IF ~(0 < timeout)
               THEN TimeoutReached(c, id, seq, admitted, log)
               ELSE /\ request_results' = admitted
                    /\ writes' = log
                    /\ callers' = [callers EXCEPT
                                      ![c] = [pc |-> "poll", request_id |-> id,
                                              seq |-> seq,
                                              start_time |-> now,
                                              timeout |-> timeout,
                                              wake |-> now + POLL_SLEEP,
                                              ret |-> NoExc, val |-> <<>>]]
    /\ UNCHANGED <<now, api_keys, sem_value, sem_waiters, queue_worker_running,
                   cleanup_task, cleaners, inv, n_direct>>

\* a wait loop that ends only at a record of the worker
PollWakeNoDeadline(c) ==
    LET me == callers[c]
        id == me.request_id
    IN
    /\ me.pc = "poll"
    /\ now >= me.wake
    /\ IF id \in DOMAIN request_results
          /\ request_results[id].status \in {"completed", "error"}
       THEN LET data == request_results[id] IN
            /\ request_results' = Del(request_results, id)
            /\ writes' = writes
            /\ callers' = [callers EXCEPT
                              ![c] = IF data.status = "error"
                                     THEN IdleCaller(StoredError(data), <<>>)
                                     ELSE IdleCaller(Return, data.result)]
       ELSE /\ callers' = [callers EXCEPT ![c].wake = now + POLL_SLEEP]
            /\ UNCHANGED <<request_results, writes>>
    /\ UNCHANGED <<now, api_keys, sem_value, sem_waiters, request_queue,
                   queue_worker_running, current_queue_size, queue_worker_task,
                   cleanup_task, workers, cleaners, inv, n_requests, n_direct,
                   upstream_calls>>

\* the wait loop of process_prompt after a sleep of half a second
PollWake(c) ==
    LET me == callers[c]
        id == me.request_id
    IN
    /\ me.pc = "poll"
    /\ now >= me.wake
    /\ IF now - me.start_time < me.timeout
       THEN IF id \in DOMAIN request_results
               /\ request_results[id].status \in {"completed", "error"}
            THEN LET data == request_results[id] IN
                 /\ request_results' = Del(request_results, id)
                 /\ writes' = writes
                 /\ callers' = [callers EXCEPT
                                   ![c] = IF data.status = "error"
                                          THEN IdleCaller(StoredError(data), <<>>)
                                          ELSE IdleCaller(Return, data.result)]
            ELSE /\ callers' = [callers EXCEPT ![c].wake = now + POLL_SLEEP]
                 /\ UNCHANGED <<request_results, writes>>
       ELSE TimeoutReached(c, id, me.seq, request_results, writes)
    /\ UNCHANGED <<now, api_keys, sem_value, sem_waiters, request_queue,
                   queue_worker_running, current_queue_size, queue_worker_task,
                   cleanup_task, workers, cleaners, inv, n_requests, n_direct,
                   upstream_calls>>

\* a status check that finds nothing
check_request_status_blind(id) ==
    [status |-> "not_found", error |-> Text("Request not found")]

\* check_request_status(id)
check_request_status(id) ==
    IF id \in DOMAIN request_results
    THEN request_results[id]
    ELSE [status |-> "not_found", error |-> Text("Request not found")]

\* how a call of check_request_status ended
Polled == Exc("polled", Text(""), "")

\* a producer awaits check_request_status(id); it keeps the id and the
\* dictionary it got
Poll(c, id) ==
    /\ callers[c].pc = "idle"
    /\ callers' = [callers EXCEPT
                      ![c] = [IdleCaller(Polled, <<check_request_status(id)>>)
                                 EXCEPT !.request_id = id]]
    /\ UNCHANGED <<now, api_keys, sem_value, sem_waiters, request_queue,
                   request_results, queue_worker_running, current_queue_size,
                   queue_worker_task, cleanup_task, workers, cleaners, inv,
                   n_requests, n_direct, writes, upstream_calls>>

\* get_queue_status()
get_queue_status ==
    [queue_size |-> current_queue_size,
     max_queue_size |-> MAX_QUEUE_SIZE,
     worker_running |-> queue_worker_running,
     pending_results |-> Cardinality(DOMAIN request_results),
     api_keys_count |-> Len(api_keys)]

---------------------------------------------------------------------------
(* queue_worker *)

\* a worker that forgets to count the item out
TakeUncounted(w) ==
    LET item == Head(request_queue) IN
    /\ request_queue' = Tail(request_queue)
    /\ current_queue_size' = current_queue_size
    /\ Begin(w, [id |-> item.id, seq |-> item.seq], item.message)

\* a worker that takes the item of the most urgent priority, the oldest
\* among equals
TakeByPriority(w) ==
    LET k == CHOOSE i \in DOMAIN request_queue :
                \A j \in DOMAIN request_queue :
                   \/ request_queue[i].priority < request_queue[j].priority
                   \/ request_queue[i].priority = request_queue[j].priority
                      /\ i <= j
        item == request_queue[k]
    IN
    /\ request_queue' =
          SubSeq(request_queue, 1, k - 1)
             \o SubSeq(request_queue, k + 1, Len(request_queue))
    /\ current_queue_size' = current_queue_size - 1
    /\ Begin(w, [id |-> item.id, seq |-> item.seq], item.message)

\* request_queue.get() returns the oldest item; the worker counts it out
\* and starts process_prompt_direct on it
Take(w) ==
    LET item == Head(request_queue) IN
    /\ request_queue' = Tail(request_queue)
    /\ current_queue_size' = current_queue_size - 1
    /\ Begin(w, [id |-> item.id, seq |-> item.seq], item.message)

\* the worker arrives at request_queue.get()
WorkerLoop(w) ==
    IF request_queue # <<>>
    THEN Take(w)
    ELSE /\ workers' = [workers EXCEPT ![w] = IdleWorker("get")]
         /\ UNCHANGED <<request_queue, current_queue_size, request_results,
                        callers, inv, sem_value, sem_waiters, writes,
                        upstream_calls>>

\* first run of a created worker task
WorkerStart(w) ==
    /\ workers[w].pc = "new"
    /\ queue_worker_running' = TRUE
    /\ WorkerLoop(w)
    /\ UNCHANGED <<now, api_keys, queue_worker_task, cleanup_task, cleaners,
                   n_requests, n_direct>>

\* a worker suspended in request_queue.get() finds an item
WorkerTake(w) ==
    /\ workers[w].pc = "get"
    /\ request_queue # <<>>
    /\ Take(w)
    /\ UNCHANGED <<now, api_keys, queue_worker_running, queue_worker_task,
                   cleanup_task, cleaners, n_requests, n_direct>>

\* a worker that goes for the next request without its pacing sleep
PaceWakeEager(w) ==
    /\ workers[w].pc = "pace"
    /\ WorkerLoop(w)
    /\ UNCHANGED <<now, api_keys, queue_worker_running, queue_worker_task,
                   cleanup_task, cleaners, n_requests, n_direct>>

\* the pacing sleep is over
PaceWake(w) ==
    /\ workers[w].pc = "pace"
    /\ now >= workers[w].wake
    /\ WorkerLoop(w)
    /\ UNCHANGED <<now, api_keys, queue_worker_running, queue_worker_task,
                   cleanup_task, cleaners, n_requests, n_direct>>

\* a cancellation that leaves the permit of the invocation taken
CancelWorkerKeepingPermit(w) ==
    /\ workers[w].pc \in {"new", "get", "exec", "pace"}
    /\ workers' = [workers EXCEPT ![w] = IdleWorker("stopped")]
    /\ queue_worker_running' =
          IF workers[w].pc = "new" THEN queue_worker_running ELSE FALSE
    /\ IF workers[w].pc = "exec"
       THEN /\ inv' = [inv EXCEPT ![w] = [@ EXCEPT !.phase = "done",
                                                   !.outcome = "CancelledError",
                                                   !.call_start = NoTime,
                                                   !.wake = NoTime]]
            /\ sem_value' = sem_value
            /\ sem_waiters' = SelectSeq(sem_waiters, LAMBDA t : t # w)
       ELSE UNCHANGED <<inv, sem_value, sem_waiters>>
    /\ UNCHANGED <<now, api_keys, request_queue, request_results,
                   current_queue_size, queue_worker_task, cleanup_task,
                   cleaners, callers, n_requests, n_direct, writes,
                   upstream_calls>>

\* the worker task is cancelled at the await it is suspended in
CancelWorker(w) ==
    /\ workers[w].pc \in {"new", "get", "exec", "pace"}
    /\ workers' = [workers EXCEPT ![w] = IdleWorker("stopped")]
    /\ queue_worker_running' =
          IF workers[w].pc = "new" THEN queue_worker_running ELSE FALSE
    /\ IF workers[w].pc = "exec"
       THEN /\ inv' = [inv EXCEPT ![w] = [@ EXCEPT !.phase = "done",
                                                   !.outcome = "CancelledError",
                                                   !.call_start = NoTime,
                                                   !.wake = NoTime]]
            /\ sem_value' = IF inv[w].phase = "acquire"
                            THEN sem_value ELSE sem_value + 1
            /\ sem_waiters' = SelectSeq(sem_waiters, LAMBDA t : t # w)
       ELSE UNCHANGED <<inv, sem_value, sem_waiters>>
    /\ UNCHANGED <<now, api_keys, request_queue, request_results,
                   current_queue_size, queue_worker_task, cleanup_task,
                   cleaners, callers, n_requests, n_direct, writes,
                   upstream_calls>>

\* start_queue_worker(), called on the running loop
StartQueueWorker ==
    /\ ~queue_worker_running /\ queue_worker_task = 0
    /\ queue_worker_task' = Min(Unborn)
    /\ workers' = [workers EXCEPT ![Min(Unborn)] = IdleWorker("new")]
    /\ UNCHANGED <<now, api_keys, sem_value, sem_waiters, request_queue,
                   request_results, queue_worker_running, current_queue_size,
                   cleanup_task, cleaners, callers, inv, n_requests, n_direct, writes,
                   upstream_calls>>

---------------------------------------------------------------------------
(* cleanup_old_results, start_cleanup_task, initialize *)

SWEEP_SLEEP == 900
COMPLETED_AGE == 3600
QUEUED_AGE == 7200

NewCleaner == [pc |-> "new", wake |-> NoTime]

\* a sweep that deletes a record as soon as it reaches its age
ToDeleteAtAge ==
    {id \in DOMAIN request_results :
        LET data == request_results[id] IN
        IF data.completed_at # NoTime
        THEN now - data.completed_at >= Secs(COMPLETED_AGE)
        ELSE data.queued_at # NoTime /\ now - data.queued_at >= Secs(QUEUED_AGE)}

\* the records a sweep deletes
ToDelete ==
    {id \in DOMAIN request_results :
        LET data == request_results[id] IN
        IF data.completed_at # NoTime
        THEN now - data.completed_at > Secs(COMPLETED_AGE)
        ELSE data.queued_at # NoTime /\ now - data.queued_at > Secs(QUEUED_AGE)}

\* one pass of the loop of cleanup_old_results
CleanupSweep(k) ==
    /\ k \in DOMAIN cleaners
    /\ \/ cleaners[k].pc = "new"
       \/ cleaners[k].pc = "sleep" /\ now >= cleaners[k].wake
    /\ request_results' =
          [id \in (DOMAIN request_results) \ ToDelete |-> request_results[id]]
    /\ cleaners' = [cleaners EXCEPT
                       ![k] = [pc |-> "sleep", wake |-> now + Secs(SWEEP_SLEEP)]]
    /\ UNCHANGED <<now, api_keys, sem_value, sem_waiters, request_queue,
                   queue_worker_running, current_queue_size, queue_worker_task,
                   cleanup_task, workers, callers, inv, n_requests, n_direct, writes,
                   upstream_calls>>

StartCleanupTask ==
    /\ Len(cleaners) < MaxCleaners
    /\ cleaners' = Append(cleaners, NewCleaner)
    /\ cleanup_task' = Len(cleaners) + 1
    /\ UNCHANGED <<now, api_keys, sem_value, sem_waiters, request_queue,
                   request_results, queue_worker_running, current_queue_size,
                   queue_worker_task, workers, callers, inv, n_requests, n_direct, writes,
                   upstream_calls>>

\* initialize(): a new worker task and a new cleanup task, whatever runs
Initialize ==
    /\ Unborn # {}
    /\ Len(cleaners) < MaxCleaners
    /\ queue_worker_task' = Min(Unborn)
    /\ workers' = [workers EXCEPT ![Min(Unborn)] = IdleWorker("new")]
    /\ cleaners' = Append(cleaners, NewCleaner)
    /\ cleanup_task' = Len(cleaners) + 1
    /\ UNCHANGED <<now, api_keys, sem_value, sem_waiters, request_queue,
                   request_results, queue_worker_running, current_queue_size,
                   callers, inv, n_requests, n_direct, writes,
                   upstream_calls>>

---------------------------------------------------------------------------
(* Time *)

\* instants at which a suspended task is due
Deadlines ==
    {callers[c].wake : c \in {x \in Callers : callers[x].pc = "poll"}}
    \cup {workers[w].wake : w \in {x \in Workers : workers[x].pc = "pace"}}
    \cup {inv[t].wake : t \in {x \in Tasks : inv[x].phase = "sleep"}}
    \cup {inv[t].call_start + Secs(CALL_TIMEOUT) :
             t \in {x \in Tasks : inv[x].phase = "call"}}
    \cup {cleaners[k].wake :
             k \in {x \in DOMAIN cleaners : cleaners[x].pc = "sleep"}}

\* a task the event loop can run without waiting for anything
Ready ==
    \/ \E w \in Workers : workers[w].pc = "new"
    \/ \E w \in Workers : workers[w].pc = "get" /\ request_queue # <<>>
    \/ \E k \in DOMAIN cleaners : cleaners[k].pc = "new"
    \/ sem_waiters # <<>> /\ sem_value > 0

\* the instants the clock may move to: the next half second while
\* now < fine, and the next deadline; never beyond horizon
NextTimes(fine, horizon) ==
    {t \in (IF now < fine THEN {now + 1} ELSE {})
           \cup (IF Deadlines = {} THEN {} ELSE {Min(Deadlines)}) :
        t <= horizon}

\* time passes while every task of the loop is suspended, and never past a
\* timer that is due
Tick(fine, horizon) ==
    /\ ~Ready
    /\ \A d \in Deadlines : d > now
    /\ \E t \in NextTimes(fine, horizon) : now' = t
    /\ UNCHANGED <<api_keys, sem_value, sem_waiters, request_queue,
                   request_results, queue_worker_running, current_queue_size,
                   queue_worker_task, cleanup_task, workers, cleaners, callers,
                   inv, n_requests, n_direct, writes,
                   upstream_calls>>

---------------------------------------------------------------------------
(* Spec: the facade, the queue and the on-demand worker.  Producers submit *)
(* blocking and fire-and-forget requests; every upstream call answers or   *)
(* fails with a payload that is too large, so no request is retried; the   *)
(* worker can be cancelled.  The random part of the request id is fixed.   *)

\* number of process_prompt calls issued in a run
MaxRequests == 3
\* the environment acts at any half second up to this instant; later, time
\* passes from one timer expiry to the next
MaxFineTime == 1
\* the clock stops here
MaxTime == 4

Configured == {keys \in KeyLists : Len(keys) = MaxKeys}

Init == InitWith(Configured)

Next ==
    \/ \E c \in Submitters, wait \in BOOLEAN, to \in Timeouts :
          n_requests < MaxRequests
          /\ Submit(c, 3, Priority(c), wait, to, RANDOM_LOW)
    \/ \E c \in Submitters : PollWake(c)
    \/ \E w \in Workers, a \in Answers : UpstreamSuccess(w, a)
    \/ \E w \in Workers : UpstreamFail(w, "E_TOKENS", 0)
    \/ \E w \in Workers : WorkerStart(w)
    \/ \E w \in Workers : WorkerTake(w)
    \/ \E w \in Workers : PaceWake(w)
    \/ \E w \in Workers : CancelWorker(w)
    \/ Tick(MaxFineTime, MaxTime)

Spec == Init /\ [][Next]_vars

---------------------------------------------------------------------------
(* Claims about admission *)

\* C1.  A call of process_prompt made while the tracked queue size is below
\* the capacity admits the request: the tracked size and the queue grow by
\* one.  A call made while the tracked size equals the capacity fails at
\* once with the queue-full OverflowError, without suspending; the tracked
\* size, the queue and the result store stay as they are, so the worker
\* never sees the request.
C1_Admission ==
    [][n_requests' = n_requests + 1 =>
        \E c \in Callers :
           /\ callers[c].pc = "idle"
           /\ \A d \in Callers \ {c} : callers'[d] = callers[d]
           /\ IF current_queue_size < MAX_QUEUE_SIZE
              THEN /\ current_queue_size' = current_queue_size + 1
                   /\ Len(request_queue') = Len(request_queue) + 1
                   /\ SubSeq(request_queue', 1, Len(request_queue)) = request_queue
                   /\ Len(writes') = Len(writes) + 1
                   /\ callers'[c].ret # QueueFull
              ELSE /\ current_queue_size = MAX_QUEUE_SIZE
                   /\ callers'[c] = IdleCaller(QueueFull, <<>>)
                   /\ UNCHANGED <<current_queue_size, request_queue,
                                  request_results, writes, inv>>
                   /\ \A w \in Workers : workers'[w].req = workers[w].req]_vars

\* a producer was refused at a full queue
C1_Witness ==
    /\ current_queue_size = MAX_QUEUE_SIZE
    /\ \E c \in Callers : callers[c].ret = QueueFull

\* C2.  In every state another task can observe, the tracked queue size
\* equals the number of items in the queue and lies between 0 and the
\* capacity, also after a worker was cancelled.
C2_QueueSizeConsistent ==
    /\ current_queue_size = Len(request_queue)
    /\ 0 <= current_queue_size
    /\ current_queue_size <= MAX_QUEUE_SIZE

\* the queue is full after the worker was cancelled in request_queue.get()
C2_Witness ==
    /\ current_queue_size = MAX_QUEUE_SIZE
    /\ \E w \in Workers : workers[w].pc = "stopped" /\ inv[w] = NoInv
    /\ \E c \in Callers : callers[c].ret = QueueFull

---------------------------------------------------------------------------
(* Claims about the life of a record *)

Terminal == {"completed", "error", "timeout"}

\* C3.  For every admitted request exactly one terminal record is written:
\* none is dropped and no request gets a second terminal write.  Stated
\* here is the part a finite run decides: no request gets a second one.
C3_OneTerminalWrite ==
    \A k \in DOMAIN writes : Len(writes[k]) <= 1

\* the status the writes so far leave the record of request k in
ReqStatus(log, k) ==
    IF log[k] = <<>> THEN "queued" ELSE log[k][Len(log[k])]

\* C4.  Once the record of a request is in a terminal status, no write of
\* the worker or of a waiting caller changes its status again.
C4_TerminalIsFinal ==
    [][\A k \in DOMAIN writes :
          ReqStatus(writes, k) \in Terminal
             => ReqStatus(writes', k) = ReqStatus(writes, k)
                /\ Len(writes'[k]) = Len(writes[k])]_vars

\* C5.  No record of the result store goes from a terminal status back to
\* "queued".
C5_NoRegression ==
    [][\A id \in (DOMAIN request_results) \cap (DOMAIN request_results') :
          request_results[id].status \in Terminal
             => request_results'[id].status # "queued"]_vars

\* the requests that are queued or in flight, oldest first
Pending ==
    [k \in 1..Len(request_queue) |->
        [id |-> request_queue[k].id, seq |-> request_queue[k].seq]]
InFlight ==
    {[id |-> workers[w].req, seq |-> workers[w].seq] :
        w \in {x \in Workers : workers[x].pc = "exec"}}
Live == {Pending[k] : k \in DOMAIN Pending} \cup InFlight

\* C6.  No two requests that are queued or in flight at the same time have
\* the same request id.
C6_UniqueIds ==
    \A a, b \in Live : a.id = b.id => a.seq = b.seq

---------------------------------------------------------------------------
(* SpecIds: as Spec, with fewer requests and with the random part of the   *)
(* request id drawn anew for every request.                                *)

\* number of process_prompt calls issued in a run
MaxIdRequests == 2

NextIds ==
    \/ \E c \in Submitters, wait \in BOOLEAN, to \in Timeouts, r \in RandomInts :
          n_requests < MaxIdRequests
          /\ Submit(c, 3, Priority(c), wait, to, r)
    \/ \E c \in Submitters : PollWake(c)
    \/ \E w \in Workers, a \in Answers : UpstreamSuccess(w, a)
    \/ \E w \in Workers : UpstreamFail(w, "E_TOKENS", 0)
    \/ \E w \in Workers : WorkerStart(w)
    \/ \E w \in Workers : WorkerTake(w)
    \/ \E w \in Workers : PaceWake(w)
    \/ \E w \in Workers : CancelWorker(w)
    \/ Tick(MaxFineTime, MaxTime)

SpecIds == Init /\ [][NextIds]_vars

---------------------------------------------------------------------------
(* SpecCalls: the retry coordinator under the semaphore, entered by the    *)
(* worker for a queued request and by producers directly, by more tasks    *)
(* than the semaphore has permits.  The worker is started on demand or by  *)
(* start_queue_worker().  An upstream call answers, fails with a payload   *)
(* that is too large, or fails overloaded.                                 *)

\* number of process_prompt calls issued in a run
MaxQueuedCalls == 1
\* number of process_prompt_direct calls issued by producers in a run
MaxDirectCalls == 2
\* the clock stops here: after both backoff sleeps of an invocation
MaxCallTime == 12

InitCalls == InitWith(KeyLists)

CallErrors == {"E_TOKENS", "E_OVERLOADED"}

NextCalls ==
    \/ \E c \in Submitters :
          n_requests < MaxQueuedCalls
          /\ Submit(c, 3, Priority(c), FALSE, Secs(1), RANDOM_LOW)
    \/ \E c \in Callers :
          n_direct < MaxDirectCalls /\ DirectCall(c, 6)
    \/ \E t \in Tasks : AcquireWake(t)
    \/ \E t \in Tasks, a \in Answers : UpstreamSuccess(t, a)
    \/ \E t \in Tasks, e \in CallErrors : UpstreamFail(t, e, 0)
    \/ \E t \in Tasks : BackoffWake(t)
    \/ \E w \in Workers : WorkerStart(w)
    \/ \E w \in Workers : WorkerTake(w)
    \/ \E w \in Workers : PaceWake(w)
    \/ StartQueueWorker
    \/ Tick(0, MaxCallTime)

SpecCalls == InitCalls /\ [][NextCalls]_vars

---------------------------------------------------------------------------
(* SpecWork: admitted requests processed by the worker, with upstream      *)
(* failures that are retried.                                              *)

\* number of process_prompt calls issued in a run
MaxWorkRequests == 2
\* the clock stops here: after both backoff sleeps and a pacing sleep
MaxWorkTime == 14

NextWork ==
    \/ \E c \in Submitters :
          n_requests < MaxWorkRequests
          /\ Submit(c, 3, Priority(c), FALSE, Secs(1), RANDOM_LOW)
    \/ \E w \in Workers, a \in Answers : UpstreamSuccess(w, a)
    \/ \E w \in Workers, e \in CallErrors : UpstreamFail(w, e, 0)
    \/ \E w \in Workers : BackoffWake(w)
    \/ \E w \in Workers : WorkerStart(w)
    \/ \E w \in Workers : WorkerTake(w)
    \/ \E w \in Workers : PaceWake(w)
    \/ Tick(0, MaxWorkTime)

SpecWork == Init /\ [][NextWork]_vars

---------------------------------------------------------------------------
(* SpecRetry: one producer runs process_prompt_direct to its end.  Each    *)
(* upstream call answers, raises one of the upstream errors, or is ended   *)
(* by the 90 second timeout; every backoff draws its jitter.               *)

\* number of process_prompt_direct calls issued in a run
MaxRetryCalls == 1
\* the clock stops here: after three calls of 90 seconds and two backoffs
MaxRetryTime == 560

NextRetry ==
    \/ \E m \in Messages :
          n_direct < MaxRetryCalls /\ DirectCall(1, m)
    \/ \E c \in Callers, a \in Answers : UpstreamSuccess(c, a)
    \/ \E c \in Callers, e \in UpstreamErrors, j \in Jitters :
          UpstreamFail(c, e, j)
    \/ \E c \in Callers, j \in Jitters : UpstreamTimeout(c, j)
    \/ \E c \in Callers : BackoffWake(c)
    \/ Tick(0, MaxRetryTime)

SpecRetry == Init /\ [][NextRetry]_vars

---------------------------------------------------------------------------
(* The semaphore and the retry budget *)

\* the tasks inside the async with block of process_prompt_direct
Holders == {t \in Tasks : inv[t].phase \in {"call", "sleep"}}

\* C7: at every instant the permits held from request_semaphore, counted
\* both as the invocations inside the async with block and as the permits
\* missing from the semaphore, are at most twice the number of keys,
\* however many invocations of process_prompt_direct, by the worker and by
\* producers, run at once; the others wait in acquire().
C7_PermitsBounded ==
    /\ Cardinality(Holders) <= 2 * Len(api_keys)
    /\ sem_value >= 0
    /\ Len(api_keys) > 0 => 2 * Len(api_keys) - sem_value = Cardinality(Holders)
    /\ \A n \in DOMAIN sem_waiters : inv[sem_waiters[n]].phase = "acquire"

\* every permit is held, by the worker and by a producer, and a third
\* invocation waits for one
C7_Witness ==
    /\ Len(api_keys) > 0
    /\ Cardinality(Holders) = 2 * Len(api_keys)
    /\ Holders \cap Workers # {}
    /\ Holders \cap Callers # {}
    /\ sem_waiters # <<>>

\* the error is a payload that is too large
TooLarge(e) == Contains(Lower(ErrorText(e)), PAT_TOO_MANY_TOKENS)

\* C8: for every admitted request at most MAX_RETRIES upstream calls are
\* made, by all workers together, and they are the calls of the one
\* invocation that processes it.  A failure with a payload that is too
\* large ends the invocation at that attempt: it is the last failure, no
\* backoff sleep follows it and no further call is made, so a request whose
\* first call fails that way got exactly one call.
C8_AttemptBudget ==
    /\ \A k \in DOMAIN upstream_calls : upstream_calls[k] <= MAX_RETRIES
    /\ \A w \in Workers :
          LET i == inv[w] IN
          /\ i.attempts <= MAX_RETRIES
          /\ workers[w].pc = "exec" => upstream_calls[workers[w].seq] = i.attempts
          /\ \A n \in DOMAIN i.errs :
                TooLarge(i.errs[n]) =>
                   /\ n = Len(i.errs)
                   /\ i.phase = "done"
                   /\ i.outcome = "ValueError"
                   /\ i.attempts = n
                   /\ Len(i.delays) = n - 1

\* one request used up its three calls, and the worker then gave up another
\* at its first call, for a payload that is too large
C8_Witness ==
    /\ \E k \in DOMAIN upstream_calls : upstream_calls[k] = MAX_RETRIES
    /\ \E k \in DOMAIN upstream_calls : upstream_calls[k] = 1
    /\ \E w \in Workers :
          /\ inv[w].phase = "done"
          /\ inv[w].errs = <<"E_TOKENS">>
          /\ inv[w].attempts = 1
          /\ inv[w].delays = <<>>

\* the error is one the upstream raises when it is overloaded
Overloaded(e) ==
    LET m == Lower(ErrorText(e)) IN
    /\ ~TooLarge(e)
    /\ Contains(m, PAT_OVERLOADED) \/ Contains(m, PAT_RATE_LIMIT)
          \/ Contains(m, PAT_QUOTA)

\* invocation i ended, and every upstream call it made failed
AllFailed(i) ==
    /\ i.phase = "done"
    /\ i.outcome # "ok"
    /\ i.errs # <<>>
    /\ Len(i.errs) = i.attempts

\* C9: an invocation all of whose upstream calls failed overloaded made
\* exactly 3 calls and slept exactly twice, between them: 2 seconds plus a
\* jitter under a second, then 4 seconds plus a jitter under a second; it
\* did not sleep after the third call and raised the overloaded
\* OverflowError.
C9_OverloadedExhausts ==
    \A t \in Tasks :
       (AllFailed(inv[t]) /\ \A n \in DOMAIN inv[t].errs : Overloaded(inv[t].errs[n])) =>
          /\ inv[t].attempts = MAX_RETRIES
          /\ Len(inv[t].errs) = MAX_RETRIES
          /\ Len(inv[t].delays) = MAX_RETRIES - 1
          /\ inv[t].delays[1] \in Secs(2)..(Secs(2) + 1)
          /\ inv[t].delays[2] \in Secs(4)..(Secs(4) + 1)
          /\ inv[t].delays[1] < inv[t].delays[2]
          /\ inv[t].wake <= now
          /\ inv[t].outcome = "OverflowError"

\* three overloaded failures, slept 2.5 and 4 seconds between
C9_Witness ==
    \E t \in Tasks :
       /\ AllFailed(inv[t])
       /\ inv[t].errs = <<"E_OVERLOADED", "E_OVERLOADED", "E_OVERLOADED">>
       /\ inv[t].delays = <<Secs(2) + 1, Secs(4)>>

\* the call was ended by asyncio.wait_for
Enforced(e) == e = "E_ENFORCED"

\* C10: an invocation all of whose upstream calls were ended by the 90
\* second timeout made 3 calls and raised the timeout TimeoutError.
C10_EnforcedTimeoutExhausts ==
    \A t \in Tasks :
       (AllFailed(inv[t]) /\ \A n \in DOMAIN inv[t].errs : Enforced(inv[t].errs[n])) =>
          /\ inv[t].attempts = MAX_RETRIES
          /\ inv[t].outcome = "TimeoutError"

---------------------------------------------------------------------------
(* SpecKinds: one producer runs process_prompt_direct to its end; each     *)
(* upstream call answers or raises an upstream error, among them errors    *)
(* whose text holds keywords of several kinds.                             *)

\* number of process_prompt_direct calls issued in a run
MaxKindCalls == 1
\* the clock stops here: after both backoff sleeps
MaxKindTime == 12

NextKinds ==
    \/ n_direct < MaxKindCalls /\ DirectCall(1, 3)
    \/ \E c \in Callers, a \in Answers : UpstreamSuccess(c, a)
    \/ \E c \in Callers, e \in UpstreamErrors \cup MixedErrors :
          UpstreamFail(c, e, 0)
    \/ \E c \in Callers : BackoffWake(c)
    \/ Tick(0, MaxKindTime)

SpecKinds == Init /\ [][NextKinds]_vars

\* the kind of an upstream failure: the first of too many tokens,
\* overloaded / rate limit / quota, timeout / deadline that its lowered
\* text holds
KindOf(e) ==
    LET m == Lower(ErrorText(e)) IN
    IF Contains(m, PAT_TOO_MANY_TOKENS) THEN "PayloadTooLarge"
    ELSE IF Contains(m, PAT_OVERLOADED) \/ Contains(m, PAT_RATE_LIMIT)
              \/ Contains(m, PAT_QUOTA) THEN "Overloaded"
    ELSE IF Contains(m, PAT_TIMEOUT) \/ Contains(m, PAT_DEADLINE)
    THEN "UpstreamTimeout"
    ELSE "Unknown"

\* the exception type a kind is raised as
RaisedAs(kind) ==
    CASE kind = "PayloadTooLarge" -> "ValueError"
      [] kind = "Overloaded" -> "OverflowError"
      [] kind = "UpstreamTimeout" -> "TimeoutError"
      [] kind = "Unknown" -> "RuntimeError"

\* C11: an invocation that ended in failure after upstream errors raised
\* the exception of the kind of its last failure, whatever the earlier
\* failures were; the kind is the first, in the order too many tokens,
\* overloaded, timeout, unknown, whose keyword the text of the last failure
\* holds; it ended after MAX_RETRIES failures or at a payload that is too
\* large.
C11_LastFailureDecides ==
    \A t \in Tasks :
       LET i == inv[t]
           last == i.errs[Len(i.errs)]
       IN  (i.phase = "done" /\ i.outcome # "ok" /\ i.errs # <<>>) =>
              /\ i.outcome = RaisedAs(KindOf(last))
              /\ callers[t].ret.type = RaisedAs(KindOf(last))
              /\ callers[t].ret.cause = last
              /\ Len(i.errs) = MAX_RETRIES \/ KindOf(last) = "PayloadTooLarge"

\* a timeout, an unclassified error, then an error whose text names a quota
\* and a timeout: raised as overloaded
C11_Witness ==
    \E t \in Tasks :
       /\ inv[t].phase = "done"
       /\ inv[t].errs = <<"E_TIMEOUT", "E_INTERNAL", "E_QUOTA_TIMEOUT">>
       /\ inv[t].outcome = "OverflowError"

---------------------------------------------------------------------------
(* The wait of a blocking process_prompt *)

\* C12: a blocking process_prompt that wakes with its timeout used up ends
\* with the wait-timeout TimeoutError and sets the status of its record, if
\* the store holds one, to "timeout"; it ends that way only then.  When the
\* worker's call for a request returns an answer, the store holds a
\* "completed" record for the request, also where the record was "timeout".
C12_TimeoutThenCompleted ==
    [][/\ \A c \in Callers :
            (callers[c].pc = "poll" /\ callers'[c] # callers[c]) =>
               LET id == callers[c].request_id
                   over == now - callers[c].start_time >= callers[c].timeout
               IN  /\ over <=> (callers'[c].ret = WaitTimeout)
                   /\ over => /\ callers'[c].pc = "idle"
                              /\ DOMAIN request_results' = DOMAIN request_results
                              /\ id \in DOMAIN request_results =>
                                    request_results'[id].status = "timeout"
       /\ \A w \in Workers :
            (workers[w].pc = "exec" /\ workers'[w].pc = "pace"
                /\ inv'[w].outcome = "ok") =>
               /\ workers[w].req \in DOMAIN request_results'
               /\ request_results'[workers[w].req].status = "completed"]_vars

\* a caller got the wait timeout, its record was marked "timeout", and the
\* worker then completed the request: the record is "completed"
C12_Witness ==
    \E c \in Callers, id \in DOMAIN request_results :
       /\ callers[c].ret = WaitTimeout
       /\ request_results[id].status = "completed"
       /\ \E k \in DOMAIN writes : writes[k] = <<"timeout", "completed">>

---------------------------------------------------------------------------
(* SpecBurst: one producer issues fire-and-forget process_prompt calls     *)
(* back to back, one more than the queue has room for.  process_prompt     *)
(* with wait_for_result=False never suspends, so from the first call to    *)
(* the last the producer is the running task and no other task of the loop *)
(* takes a step.  The worker is created by the first call, or was started  *)
(* before and waits in request_queue.get().                                *)

\* the calls of the burst
BurstLen == MAX_QUEUE_SIZE + 1
\* the producer is between two calls of its burst
Bursting == n_requests \in 1..(BurstLen - 1)
\* the clock stops here
MaxBurstTime == 6

NextBurst ==
    \/ \E r \in RandomInts :
          n_requests < BurstLen
          /\ Submit(1, 3, Priority(1), FALSE, Secs(1), r)
    \/ ~Bursting /\ StartQueueWorker
    \/ \E w \in Workers : ~Bursting /\ WorkerStart(w)
    \/ \E w \in Workers : ~Bursting /\ WorkerTake(w)
    \/ \E w \in Workers : ~Bursting /\ PaceWake(w)
    \/ \E w \in Workers, a \in Answers : ~Bursting /\ UpstreamSuccess(w, a)
    \/ ~Bursting /\ Tick(MaxFineTime, MaxBurstTime)

SpecBurst == Init /\ [][NextBurst]_vars

\* C13: with room for MAX_QUEUE_SIZE requests, the calls of the burst but
\* the last are admitted and the last is refused with the queue-full
\* OverflowError; the queue then holds exactly MAX_QUEUE_SIZE requests, the
\* admitted ones in order: the worker, running or not, took none of them
\* between the calls.
C13_BurstFillsQueue ==
    [][n_requests' = n_requests + 1 =>
         /\ Len(request_queue) = n_requests
         /\ current_queue_size = n_requests
         /\ \A w \in Workers : workers[w].pc # "exec"
         /\ IF n_requests' < BurstLen
            THEN /\ callers'[1].ret = Return
                 /\ Len(request_queue') = n_requests'
                 /\ request_queue'[n_requests'].id = callers'[1].val
            ELSE /\ callers'[1].ret = QueueFull
                 /\ request_queue' = request_queue
                 /\ Len(request_queue') = MAX_QUEUE_SIZE
                 /\ current_queue_size' = MAX_QUEUE_SIZE]_vars

\* the last call of the burst was refused while the worker, started
\* before the burst, waits in request_queue.get() with the queue full
C13_Witness ==
    /\ n_requests = BurstLen
    /\ callers[1].ret = QueueFull
    /\ Len(request_queue) = MAX_QUEUE_SIZE
    /\ \E w \in Workers : workers[w].pc = "get"

---------------------------------------------------------------------------
(* SpecReaper: the cleanup task sweeps the result store every 15 minutes   *)
(* while fire-and-forget requests are completed by the worker, fail, or    *)
(* stay queued because the worker was cancelled.  Time passes from one     *)
(* timer expiry to the next.                                               *)

\* number of process_prompt calls issued in a run
MaxReapRequests == 2
\* the clock stops here: after the first sweep later than two hours
MaxReapTime == 16202

NextReaper ==
    \/ \E c \in Submitters, r \in RandomInts :
          n_requests < MaxReapRequests
          /\ Submit(c, 3, Priority(c), FALSE, Secs(1), r)
    \/ \E w \in Workers, a \in Answers : UpstreamSuccess(w, a)
    \/ \E w \in Workers : UpstreamFail(w, "E_TOKENS", 0)
    \/ \E w \in Workers : WorkerStart(w)
    \/ \E w \in Workers : WorkerTake(w)
    \/ \E w \in Workers : PaceWake(w)
    \/ \E w \in Workers : CancelWorker(w)
    \/ StartCleanupTask
    \/ \E k \in 1..MaxCleaners : CleanupSweep(k)
    \/ Tick(0, MaxReapTime)

SpecReaper == Init /\ [][NextReaper]_vars

\* a cleanup task ran one pass of its loop in this step
Swept ==
    /\ Len(cleaners') = Len(cleaners)
    /\ \E k \in DOMAIN cleaners : cleaners'[k] # cleaners[k]

\* C14: a sweep deletes a record with completed_at exactly when more than
\* an hour passed since completed_at, and a record without completed_at
\* exactly when more than two hours passed since it was queued; it leaves
\* the other records as they are.
C14_SweepByAge ==
    [][Swept =>
         \A id \in DOMAIN request_results :
            LET data == request_results[id]
                old == IF data.completed_at # NoTime
                       THEN now - data.completed_at > Secs(60 * 60)
                       ELSE now - data.queued_at > Secs(2 * 60 * 60)
            IN  /\ old <=> id \notin DOMAIN request_results'
                /\ ~old => request_results'[id] = data]_vars

\* a sweep has just run: a record completed exactly an hour ago is still
\* there, and the store holds fewer records than requests were admitted
C14_Witness ==
    /\ \E k \in DOMAIN cleaners :
          cleaners[k].pc = "sleep" /\ cleaners[k].wake = now + Secs(SWEEP_SLEEP)
    /\ \E id \in DOMAIN request_results :
          /\ request_results[id].completed_at # NoTime
          /\ now - request_results[id].completed_at = Secs(COMPLETED_AGE)
    /\ Cardinality(DOMAIN request_results) < Len(writes)

---------------------------------------------------------------------------
(* SpecMain: the program as run.py starts it, with any of the key lists.   *)
(* main() returns 1 before it imports the bot when GEMINI_API_KEY, the     *)
(* first key of the list, is not set; producers exist only when it went on *)
(* to run_bot().                                                           *)

\* a start that does not look at the environment
StartedAnyway == TRUE

\* main() went on to run_bot()
Started == Len(api_keys) > 0

\* number of process_prompt calls issued in a run
MaxMainRequests == 2

NextMain ==
    \/ \E c \in Submitters, wait \in BOOLEAN, to \in Timeouts :
          Started /\ n_requests < MaxMainRequests
          /\ Submit(c, 3, Priority(c), wait, to, RANDOM_LOW)
    \/ \E c \in Submitters : PollWake(c)
    \/ \E w \in Workers, a \in Answers : UpstreamSuccess(w, a)
    \/ \E w \in Workers : UpstreamFail(w, "E_TOKENS", 0)
    \/ \E w \in Workers : WorkerStart(w)
    \/ \E w \in Workers : WorkerTake(w)
    \/ \E w \in Workers : PaceWake(w)
    \/ Tick(MaxFineTime, MaxTime)

SpecMain == InitCalls /\ [][NextMain]_vars

\* C15: started without a key, the program never gets to its queue: no
\* process_prompt call is made, nothing is queued or recorded, no worker
\* task exists and no upstream call is made.
C15_NoKeysNoStart ==
    api_keys = <<>> =>
       /\ n_requests = 0
       /\ request_queue = <<>>
       /\ current_queue_size = 0
       /\ request_results = <<>>
       /\ ~queue_worker_running
       /\ \A w \in Workers : workers[w].pc = "unborn"
       /\ \A t \in Tasks : inv[t].phase = "none" /\ inv[t].attempts = 0
       /\ upstream_calls = <<>>

\* time has passed in a program started without a key
C15_Witness ==
    /\ api_keys = <<>>
    /\ now = MaxFineTime
    /\ n_requests = 0

---------------------------------------------------------------------------
(* Records and what producers see of them *)

\* C16: every process_prompt call leaves a "queued" record under the id it
\* generated, whether the queue had room or the call was refused.  (Under
\* Spec the random part of the id is RANDOM_LOW.)
C16_RecordOnEverySubmit ==
    [][n_requests' = n_requests + 1 =>
         /\ RequestId(RANDOM_LOW) \in DOMAIN request_results'
         /\ request_results'[RequestId(RANDOM_LOW)].status = "queued"]_vars

---------------------------------------------------------------------------
(* SpecPoll: as Spec, with fewer requests, no cancellation, and producers  *)
(* that call check_request_status with the ids process_prompt can have     *)
(* generated so far.                                                       *)

\* number of process_prompt calls issued in a run
MaxPollRequests == 2
\* the clock stops here
MaxPollTime == 3

\* the request ids generated so far, had every second seen a request
KnownIds == {<<s, RANDOM_LOW>> : s \in 0..(now \div 2)}

NextPoll ==
    \/ \E c \in Submitters, wait \in BOOLEAN, to \in Timeouts :
          n_requests < MaxPollRequests
          /\ Submit(c, 3, Priority(c), wait, to, RANDOM_LOW)
    \/ \E c \in Submitters : PollWake(c)
    \/ \E c \in Submitters, id \in KnownIds : Poll(c, id)
    \/ \E w \in Workers, a \in Answers : UpstreamSuccess(w, a)
    \/ \E w \in Workers : UpstreamFail(w, "E_TOKENS", 0)
    \/ \E w \in Workers : WorkerStart(w)
    \/ \E w \in Workers : WorkerTake(w)
    \/ \E w \in Workers : PaceWake(w)
    \/ Tick(MaxFineTime, MaxPollTime)

SpecPoll == Init /\ [][NextPoll]_vars

\* producer c got the dictionary of check_request_status in this step
PollReturned(c) == callers'[c] # callers[c] /\ callers'[c].ret = Polled

\* C17: once a producer has seen a terminal status of a request, as the
\* outcome of its blocking process_prompt or in the dictionary that
\* check_request_status returned, the store holds no record under the id.
C17_ObservedIsDeleted ==
    [][\A c \in Callers :
          /\ (callers[c].pc = "poll" /\ callers'[c].pc = "idle"
                 /\ callers'[c].ret # WaitTimeout) =>
                callers[c].request_id \notin DOMAIN request_results'
          /\ (PollReturned(c) /\ callers'[c].val[1].status \in Terminal) =>
                callers'[c].request_id \notin DOMAIN request_results']_vars

\* C18: process_prompt with wait_for_result=False returns the request id in
\* the step of the call, with the request still in the queue, and the store
\* then holds a "queued" record under that id; check_request_status returns
\* the record the store holds under the id, and the not_found dictionary
\* when it holds none, and changes nothing.
C18_FireAndForgetAndPoll ==
    [][\A c \in Callers :
          /\ (n_requests' = n_requests + 1 /\ callers'[c] # callers[c]
                 /\ callers'[c].ret = Return) =>
                LET id == callers'[c].val IN
                /\ callers[c].pc = "idle"
                /\ id \in DOMAIN request_results'
                /\ request_results'[id].status = "queued"
                /\ request_queue' # <<>>
                /\ request_queue'[Len(request_queue')].id = id
          /\ PollReturned(c) =>
                LET id == callers'[c].request_id
                    got == callers'[c].val[1]
                IN  /\ request_results' = request_results
                    /\ IF id \in DOMAIN request_results
                       THEN got = request_results[id]
                       ELSE got.status = "not_found"]_vars

\* a producer got a "completed" record from check_request_status, and
\* another the not_found dictionary
C18_Witness ==
    /\ \E c \in Callers :
          /\ callers[c].ret = Polled
          /\ callers[c].val[1].status = "completed"
    /\ \E c \in Callers :
          /\ callers[c].ret = Polled
          /\ callers[c].val[1].status = "not_found"

---------------------------------------------------------------------------
(* SpecErrors: blocking requests whose timeout outlasts the retries; the   *)
(* upstream calls of the worker answer or fail with an error of one of the *)
(* four kinds.                                                             *)

\* number of process_prompt calls issued in a run
MaxErrRequests == 2
\* the clock stops here: after both backoff sleeps and the poll that follows
MaxErrTime == 13

\* the timeout argument, longer than the clock runs
LongTimeout == Secs(MaxErrTime)

KindErrors == {"E_TOKENS", "E_OVERLOADED", "E_TIMEOUT", "E_INTERNAL"}

NextErrors ==
    \/ \E c \in Submitters :
          n_requests < MaxErrRequests
          /\ Submit(c, 3, Priority(c), TRUE, LongTimeout, RANDOM_LOW)
    \/ \E c \in Submitters : PollWake(c)
    \/ \E w \in Workers, a \in Answers : UpstreamSuccess(w, a)
    \/ \E w \in Workers, e \in KindErrors : UpstreamFail(w, e, 0)
    \/ \E w \in Workers : BackoffWake(w)
    \/ \E w \in Workers : WorkerStart(w)
    \/ \E w \in Workers : WorkerTake(w)
    \/ \E w \in Workers : PaceWake(w)
    \/ Tick(0, MaxErrTime)

SpecErrors == Init /\ [][NextErrors]_vars

\* C19: the error record the worker writes carries the type and the text
\* of the exception its invocation ended with, which is the exception of
\* the kind of the last failure; a blocking process_prompt that finds an
\* error record raises an exception of the type and with the text of the
\* record.  So the producer gets the kind the invocation ended with, and
\* nothing of the failures before the last.
C19_KindRoundTrip ==
    [][/\ \A w \in Workers :
            (workers[w].pc = "exec" /\ workers'[w].pc = "pace"
                /\ inv'[w].outcome # "ok") =>
               LET data == request_results'[workers[w].req]
                   last == inv'[w].errs[Len(inv'[w].errs)]
               IN  /\ data.status = "error"
                   /\ data.error_type = inv'[w].outcome
                   /\ data.error_type = RaisedAs(KindOf(last))
       /\ \A c \in Callers :
            (callers[c].pc = "poll" /\ callers'[c].pc = "idle"
                /\ request_results[callers[c].request_id].status = "error"
                /\ callers'[c].ret # WaitTimeout) =>
               LET seen == request_results[callers[c].request_id] IN
               /\ callers'[c].ret.type = seen.error_type
               /\ callers'[c].ret.msg = seen.error]_vars

\* a producer got each of the four kinds: here the overloaded
\* OverflowError, after a timeout and two overloaded failures
C19_Witness ==
    \E c \in Callers, w \in Workers :
       /\ callers[c].ret.type = "OverflowError"
       /\ callers[c].ret # QueueFull
       /\ inv[w].errs = <<"E_TIMEOUT", "E_OVERLOADED", "E_OVERLOADED">>


\* C20: a blocking process_prompt that finds the error record of a call
\* that timed out upstream after its retries raises an exception whose type
\* differs from the type of the exception it raises when its own wait has
\* passed, so that a producer tells the two outcomes apart by the type it
\* catches.
C20_TimeoutKindsDistinct ==
    [][\A c \in Callers :
          (callers[c].pc = "poll" /\ callers'[c].pc = "idle"
              /\ request_results[callers[c].request_id].status = "error"
              /\ request_results[callers[c].request_id].error
                    = FinalError("E_TIMEOUT").msg
              /\ callers'[c].ret # WaitTimeout) =>
             callers'[c].ret.type # WaitTimeout.type]_vars

---------------------------------------------------------------------------
(* Claims about the order of service *)

C22_FailureKeepsWorker ==
    [][/\ \A w \in Workers :
            (workers[w].pc = "exec" /\ inv'[w].phase = "done"
                /\ inv'[w].outcome # "ok") =>
               /\ workers[w].req \in DOMAIN request_results'
               /\ request_results'[workers[w].req].status = "error"
               /\ request_results'[workers[w].req].error_type = inv'[w].outcome
               /\ writes'[workers[w].seq]
                     = Append(writes[workers[w].seq], "error")
               /\ workers'[w].pc = "pace"
               /\ workers'[w].wake = now + PACE_SLEEP
       /\ \A w \in Workers :
            (workers[w].pc = "pace" /\ workers'[w].pc # "pace") =>
               IF request_queue = <<>>
               THEN workers'[w].pc = "get"
               ELSE /\ workers'[w].pc = "exec"
                    /\ workers'[w].req = Head(request_queue).id
       /\ \A w \in Workers : workers'[w].pc # "stopped"]_vars

\* the worker is on the second request after the first one failed for good
\* with an unclassified error
C22_Witness ==
    \E w \in Workers :
       /\ Len(writes) = 2
       /\ writes[1] = <<"error">>
       /\ inv[w].errs = <<>>
       /\ inv[w].phase = "call"
       /\ workers[w].pc = "exec"
       /\ workers[w].seq = 2
       /\ \E id \in DOMAIN request_results :
             /\ request_results[id].status = "error"
             /\ request_results[id].error_type = "RuntimeError"

---------------------------------------------------------------------------
(* SpecWait: producers make blocking process_prompt calls with a timeout   *)
(* of one second; the upstream call answers or fails for good at any       *)
(* moment, so a caller may give up while its request is in the queue or in *)
(* flight.  The event loop runs every task that is ready, every timer      *)
(* fires, and every upstream call ends.                                    *)

MaxWaitRequests == 2
MaxWaitTime == 20

NextWait ==
    \/ \E c \in Submitters, to \in Timeouts :
          n_requests < MaxWaitRequests
          /\ Submit(c, 3, Priority(c), TRUE, to, RANDOM_LOW)
    \/ \E c \in Submitters : PollWake(c)
    \/ \E w \in Workers, a \in Answers : UpstreamSuccess(w, a)
    \/ \E w \in Workers : UpstreamFail(w, "E_TOKENS", 0)
    \/ \E w \in Workers : WorkerStart(w)
    \/ \E w \in Workers : WorkerTake(w)
    \/ \E w \in Workers : PaceWake(w)
    \/ Tick(0, MaxWaitTime)

\* every upstream call ends
UpstreamEnds(w) ==
    \/ \E a \in Answers : UpstreamSuccess(w, a)
    \/ UpstreamFail(w, "E_TOKENS", 0)

\* the event loop runs every task that is ready and fires every timer
FairLoop ==
    /\ WF_vars(Tick(0, MaxWaitTime))
    /\ \A c \in Submitters : WF_vars(PollWake(c))
    /\ \A w \in Workers :
          /\ WF_vars(WorkerStart(w))
          /\ WF_vars(WorkerTake(w))
          /\ WF_vars(PaceWake(w))

FairWait == FairLoop /\ \A w \in Workers : WF_vars(UpstreamEnds(w))

SpecWait == Init /\ [][NextWait]_vars /\ FairWait

\* the worker wrote the outcome of request k
Served(k) ==
    /\ k \in DOMAIN writes
    /\ \E i \in DOMAIN writes[k] : writes[k][i] \in {"completed", "error"}

\* the caller of request k gave up
GaveUp(k) ==
    /\ k \in DOMAIN writes
    /\ \E i \in DOMAIN writes[k] : writes[k][i] = "timeout"

\* C23: the step in which a blocking process_prompt gives up changes the
\* caller and the status of its record and nothing else: the queue, the
\* tracked queue size, the permits, the invocations and the worker are as
\* before.  The worker still writes the outcome of every request whose
\* caller gave up.
C23_TimeoutEndsOnlyTheWait ==
    /\ [][\A c \in Callers :
            (callers[c].pc = "poll" /\ callers'[c].ret = WaitTimeout) =>
               /\ UNCHANGED <<request_queue, current_queue_size, sem_value,
                              sem_waiters, inv, workers, upstream_calls,
                              queue_worker_running, queue_worker_task>>
               /\ DOMAIN request_results' = DOMAIN request_results
               /\ \A id \in DOMAIN request_results :
                     id # callers[c].request_id =>
                        request_results'[id] = request_results[id]]_vars
    /\ \A k \in 1..MaxWaitRequests : GaveUp(k) ~> Served(k)

\* the caller of the second request gave up, and the worker completed the
\* request afterwards with its one upstream call
C23_Witness ==
    \E k \in DOMAIN writes, c \in Callers :
       /\ k = 2
       /\ writes[k] = <<"timeout", "completed">>
       /\ callers[c].ret = WaitTimeout
       /\ upstream_calls[k] = 1
       /\ writes[1] = <<"completed">>

---------------------------------------------------------------------------
(* SpecHang: the steps of SpecWait, where an upstream call need not end:   *)
(* the worker may stay on a request for ever.                              *)

SpecHang == Init /\ [][NextWait]_vars /\ FairLoop

\* C24: a blocking process_prompt ends.  While it waits, the time since its
\* start is at most its timeout plus one poll sleep; it ends with the
\* result of a completed record, with the exception of an error record, or
\* with the wait-timeout TimeoutError; and every call that waits ends,
\* also when the upstream call of the worker never ends.
C24_BlockingSubmitEnds ==
    /\ [](\A c \in Callers :
            callers[c].pc = "poll" =>
               /\ now <= callers[c].start_time + callers[c].timeout + POLL_SLEEP
               /\ callers[c].wake
                     <= callers[c].start_time + callers[c].timeout + POLL_SLEEP)
    /\ [][\A c \in Callers :
            (callers[c].pc = "poll" /\ callers'[c].pc = "idle") =>
               LET id == callers[c].request_id IN
               \/ callers'[c].ret = WaitTimeout
               \/ /\ id \in DOMAIN request_results
                  /\ request_results[id].status = "completed"
                  /\ callers'[c].ret = Return
                  /\ callers'[c].val = request_results[id].result
               \/ /\ id \in DOMAIN request_results
                  /\ request_results[id].status = "error"
                  /\ callers'[c].ret = StoredError(request_results[id])]_vars
    /\ \A c \in Callers : (callers[c].pc = "poll") ~> (callers[c].pc = "idle")

\* a caller gave up on a request whose upstream call has not ended
C24_Witness ==
    \E c \in Callers, w \in Workers :
       /\ callers[c].pc = "idle"
       /\ callers[c].ret = WaitTimeout
       /\ writes = << <<"timeout">> >>
       /\ workers[w].pc = "exec"
       /\ workers[w].seq = 1
       /\ inv[w].phase = "call"
       /\ now >= Secs(1)

---------------------------------------------------------------------------
(* SpecUp: the ways the system is brought up.  start_queue_worker() and    *)
(* initialize() are called on the running loop, before or after            *)
(* fire-and-forget process_prompt calls, which start the worker on demand. *)

MaxUpRequests == 2
MaxUpTime == 4

NextUp ==
    \/ \E c \in Submitters :
          n_requests < MaxUpRequests
          /\ Submit(c, 3, Priority(c), FALSE, Secs(1), RANDOM_LOW)
    \/ StartQueueWorker
    \/ Initialize
    \/ \E w \in Workers, a \in Answers : UpstreamSuccess(w, a)
    \/ \E w \in Workers : WorkerStart(w)
    \/ \E w \in Workers : WorkerTake(w)
    \/ \E w \in Workers : PaceWake(w)
    \/ \E k \in 1..MaxCleaners : CleanupSweep(k)
    \/ Tick(MaxFineTime, MaxUpTime)

SpecUp == Init /\ [][NextUp]_vars

\* the worker tasks whose loop runs
ActiveWorkers == {w \in Workers : workers[w].pc \in {"get", "exec", "pace"}}

\* C25: at any time at most one queue_worker loop runs, whatever calls of
\* process_prompt, start_queue_worker and initialize were made.
C25_OneWorker == Cardinality(ActiveWorkers) <= 1

---------------------------------------------------------------------------
(* SpecStore: the life of the records of the result store over hours.      *)
(* Producers make fire-and-forget process_prompt calls in the first        *)
(* moments, and the upstream call answers then or is ended by its timeout  *)
(* of 90 seconds; initialize() may be called at any time, or not at all.   *)
(* The event loop runs every task that is ready and fires every timer.     *)

MaxStoreRequests == 2
\* producers and the upstream act up to this instant, in half seconds
MaxEarly == 1
MaxStoreTime == 16202

Early == now <= MaxEarly

NextStore ==
    \/ \E c \in Submitters :
          n_requests < MaxStoreRequests /\ Early
          /\ Submit(c, 3, Priority(c), FALSE, Secs(1), RANDOM_LOW)
    \/ Initialize
    \/ \E w \in Workers, a \in Answers : Early /\ UpstreamSuccess(w, a)
    \/ \E w \in Workers : UpstreamTimeout(w, 0)
    \/ \E w \in Workers : BackoffWake(w)
    \/ \E w \in Workers : WorkerStart(w)
    \/ \E w \in Workers : WorkerTake(w)
    \/ \E w \in Workers : PaceWake(w)
    \/ \E k \in 1..MaxCleaners : CleanupSweep(k)
    \/ Tick(MaxEarly, MaxStoreTime)

FairStore ==
    /\ WF_vars(Tick(MaxEarly, MaxStoreTime))
    /\ \A w \in Workers :
          /\ WF_vars(UpstreamTimeout(w, 0))
          /\ WF_vars(BackoffWake(w))
          /\ WF_vars(WorkerStart(w))
          /\ WF_vars(WorkerTake(w))
          /\ WF_vars(PaceWake(w))
    /\ \A k \in 1..MaxCleaners : WF_vars(CleanupSweep(k))

SpecStore == Init /\ [][NextStore]_vars /\ FairStore

\* C26: every record of the result store is deleted in the end: a store
\* that holds records becomes empty, however the system was brought up.
C26_StoreEmpties == (request_results # <<>>) ~> (request_results = <<>>)

---------------------------------------------------------------------------
(* Claims about races of the caller and the worker *)

\* C27: a blocking process_prompt does not end with the wait-timeout
\* TimeoutError when the store holds a "completed" or "error" record of its
\* request: it ends with the stored outcome, and the status of the record is
\* not set to "timeout".
C27_OutcomeBeatsTimeout ==
    [][\A c \in Callers :
          (callers[c].pc = "poll" /\ callers'[c].pc = "idle"
              /\ callers[c].request_id \in DOMAIN request_results
              /\ request_results[callers[c].request_id].status
                    \in {"completed", "error"}) =>
             /\ callers'[c].ret # WaitTimeout
             /\ callers[c].request_id \in DOMAIN request_results' =>
                   request_results'[callers[c].request_id].status # "timeout"]_vars

\* C28: a process_prompt call made while no worker loop runs, after the
\* worker was cancelled, creates a new worker task.
C28_RestartAfterStop ==
    [][(/\ n_requests' = n_requests + 1
        /\ ~queue_worker_running
        /\ \E w \in Workers : workers[w].pc = "stopped"
        /\ \A w \in Workers : workers[w].pc \in {"stopped", "unborn"}) =>
          \E w \in Workers : workers'[w].pc = "new"]_vars

---------------------------------------------------------------------------
(* SpecPermit: invocations of process_prompt_direct by the worker and by   *)
(* producers at once, more than there are permits; an upstream call        *)
(* answers, fails for good or fails and is retried, and the worker can be  *)
(* cancelled wherever it is suspended.                                     *)

MaxPermitRequests == 1
MaxPermitCalls == 2
MaxPermitTime == 5

NextPermit ==
    \/ \E c \in Submitters :
          n_requests < MaxPermitRequests
          /\ Submit(c, 3, Priority(c), FALSE, Secs(1), RANDOM_LOW)
    \/ \E c \in Callers :
          n_direct < MaxPermitCalls /\ DirectCall(c, 6)
    \/ \E t \in Tasks : AcquireWake(t)
    \/ \E t \in Tasks, a \in Answers : UpstreamSuccess(t, a)
    \/ \E t \in Tasks, e \in CallErrors : UpstreamFail(t, e, 0)
    \/ \E t \in Tasks : BackoffWake(t)
    \/ \E w \in Workers : WorkerStart(w)
    \/ \E w \in Workers : WorkerTake(w)
    \/ \E w \in Workers : PaceWake(w)
    \/ \E w \in Workers : CancelWorker(w)
    \/ StartQueueWorker
    \/ Tick(0, MaxPermitTime)

SpecPermit == Init /\ [][NextPermit]_vars

\* C29: an invocation of process_prompt_direct holds one permit from its
\* first attempt to its end, its backoff sleeps included: the permits
\* missing from the semaphore are the invocations that are in an upstream
\* call or in a backoff sleep.  An invocation that ends, by an answer, by
\* an exception or by cancellation, gives its permit back in that step, and
\* an invocation cancelled while it waits for a permit takes none.  When no
\* invocation runs, all permits are free.
C29_OnePermitPerInvocation ==
    /\ [](/\ sem_value = MaxConcurrent(api_keys) - Cardinality(Holders)
          /\ (\A t \in Tasks : inv[t].phase \in {"none", "done"}) =>
                sem_value = MaxConcurrent(api_keys))
    /\ [][\A t \in Tasks :
            /\ (inv[t].phase \in {"call", "sleep"} /\ inv'[t].phase = "done") =>
                  /\ sem_value' = sem_value + 1
                  /\ inv'[t].outcome
                        \in {"ok", "ValueError", "OverflowError", "TimeoutError",
                             "RuntimeError", "CancelledError"}
            /\ (inv[t].phase = "acquire" /\ inv'[t].phase = "done") =>
                  sem_value' = sem_value]_vars

\* three invocations ended, one with an answer, one with an exception and
\* the worker's by a cancellation in its backoff sleep, one of them after
\* it had waited for a permit; all permits are free again
C29_Witness ==
    \E w \in Workers, c, d \in Callers :
       /\ inv[w].outcome = "CancelledError"
       /\ Len(inv[w].delays) = 1
       /\ inv[w].attempts = 1
       /\ inv[c].outcome = "ok"
       /\ inv[d].outcome = "ValueError"
       /\ \A t \in Tasks : inv[t].phase \in {"none", "done"}
       /\ sem_value = MaxConcurrent(api_keys)

\* C30: the step of process_prompt that puts a request into the queue also
\* creates its queued record, and no worker runs in between: after the
\* step the store holds the record, queued at this instant, no outcome was
\* written for the request and no worker is on it.  A worker that takes a
\* request takes one whose record was created in an earlier step.
C30_AdmissionIsAtomic ==
    [][/\ Len(request_queue') > Len(request_queue) =>
            LET item == request_queue'[Len(request_queue')] IN
            /\ request_queue' = Append(request_queue, item)
            /\ item.id \in DOMAIN request_results'
            /\ request_results'[item.id].status \in {"queued", "timeout"}
            /\ request_results'[item.id].queued_at = now
            /\ item.seq \notin DOMAIN writes
            /\ writes'[item.seq] \in {<<>>, <<"timeout">>}
            /\ \A w \in Workers :
                  /\ workers'[w].seq # item.seq
                  /\ workers'[w] # workers[w] => workers'[w].pc = "new"
       /\ \A w \in Workers :
            (workers'[w].seq # 0 /\ workers'[w].seq # workers[w].seq) =>
               /\ workers'[w].seq \in DOMAIN writes
               /\ Head(request_queue).seq = workers'[w].seq
               /\ request_results' = request_results]_vars

\* the worker is on a request whose record is the queued record created at
\* its admission, while a request admitted later waits in the queue
C30_Witness ==
    \E w \in Workers :
       /\ workers[w].pc = "exec"
       /\ workers[w].req \in DOMAIN request_results
       /\ request_results[workers[w].req].status = "queued"
       /\ writes[workers[w].seq] = <<>>
       /\ request_queue # <<>>

---------------------------------------------------------------------------
(* SpecOrder: the order in which the worker writes the outcomes.  Producers *)
(* make fire-and-forget process_prompt calls; an upstream call answers or  *)
(* fails as overloaded and is retried after its backoff; initialize() may  *)
(* be called on the running loop and starts a second queue_worker.         *)

MaxOrderRequests == 2
MaxOrderTime == 5

NextOrder ==
    \/ \E c \in Submitters :
          n_requests < MaxOrderRequests
          /\ Submit(c, 3, Priority(c), FALSE, Secs(1), RANDOM_LOW)
    \/ Initialize
    \/ \E w \in Workers, a \in Answers : UpstreamSuccess(w, a)
    \/ \E w \in Workers : UpstreamFail(w, "E_OVERLOADED", 0)
    \/ \E w \in Workers : BackoffWake(w)
    \/ \E w \in Workers : WorkerStart(w)
    \/ \E w \in Workers : WorkerTake(w)
    \/ \E w \in Workers : PaceWake(w)
    \/ \E k \in 1..MaxCleaners : CleanupSweep(k)
    \/ Tick(0, MaxOrderTime)

SpecOrder == Init /\ [][NextOrder]_vars

\* the worker wrote the outcome of request k and not yet that of request j,
\* which was admitted before
Overtaken(j, k) == j < k /\ Served(k) /\ ~Served(j)

\* the queue_worker tasks created so far
CreatedWorkers == {w \in Workers : workers[w].pc # "unborn"}

\* C31: a request admitted later can get its outcome from the worker before
\* a request admitted earlier that is being retried.  It happens only while
\* a worker is still on the earlier request and a second queue_worker,
\* created by initialize(), served the later one; the requests one worker
\* takes get their outcomes in the order of their admission.
C31_OvertakingNeedsTwoWorkers ==
    \A j, k \in DOMAIN writes :
       Overtaken(j, k) =>
          /\ Cardinality(CreatedWorkers) >= 2
          /\ \E w \in Workers :
                /\ workers[w].pc = "exec"
                /\ workers[w].seq = j
                /\ upstream_calls[j] >= 1

\* the second request is completed after one upstream call while the first,
\* whose first call failed, is in its second call
C31_Witness ==
    /\ Len(writes) = 2
    /\ writes[2] = <<"completed">>
    /\ writes[1] = <<>>
    /\ upstream_calls[1] = 2
    /\ upstream_calls[2] = 1
    /\ \E w \in Workers : workers[w].seq = 1 /\ inv[w].errs = <<"E_OVERLOADED">>

\* the invocations of process_prompt_direct made for queued requests that
\* have not ended
QueuedInFlight ==
    {w \in Workers : inv[w].phase \in {"acquire", "call", "sleep"}}

\* C32: at any instant at most one invocation of process_prompt_direct runs
\* for the queued requests, it holds the only permit taken, and it never
\* waits for a permit.
C32_OneInFlight ==
    /\ Cardinality(QueuedInFlight) <= 1
    /\ sem_value >= MaxConcurrent(api_keys) - 1
    /\ sem_waiters = <<>>

\* C33: a queue_worker that stored the outcome of a request sleeps for
\* PACE_SLEEP before it goes back to the queue, whatever the queue holds
\* and however many permits are free: it leaves the request for the pacing
\* sleep, leaves the sleep only when it is over, and takes a request only
\* at its start, out of the sleep, or out of its wait at an empty queue.
C33_PaceBetweenTakes ==
    [][\A w \in Workers :
          /\ (workers[w].pc = "exec" /\ workers'[w].pc # "exec") =>
                /\ workers'[w].pc = "pace"
                /\ workers'[w].wake = now + PACE_SLEEP
                /\ request_queue' = request_queue
          /\ (workers[w].pc = "pace" /\ workers'[w] # workers[w]) =>
                now >= workers[w].wake
          /\ (workers[w].pc # "exec" /\ workers'[w].pc = "exec") =>
                workers[w].pc \in {"new", "get", "pace"}]_vars

\* the only worker is on the second request, which it took half a second
\* after it completed the first, with a permit to spare all along
C33_Witness ==
    \E w \in Workers :
       /\ CreatedWorkers = {w}
       /\ workers[w].pc = "exec"
       /\ workers[w].seq = 2
       /\ writes[1] = <<"completed">>
       /\ upstream_calls[1] = 1
       /\ inv[w].call_start = PACE_SLEEP
       /\ sem_value >= 1

---------------------------------------------------------------------------
(* SpecRotate: the keys of the attempts.  At least two keys are configured; *)
(* a queued request is processed by the worker, and an upstream call        *)
(* answers or fails as overloaded and is retried with a newly drawn key.    *)

MaxRotateKeys == 2
MaxRotateRequests == 2
MaxRotateTime == 13

KeyPools == {[k \in 1..n |-> k] : n \in 2..MaxRotateKeys}

InitRotate == InitWith(KeyPools)

NextRotate ==
    \/ \E c \in Submitters :
          n_requests < MaxRotateRequests
          /\ Submit(c, 3, Priority(c), FALSE, Secs(1), RANDOM_LOW)
    \/ \E w \in Workers, a \in Answers : UpstreamSuccess(w, a)
    \/ \E w \in Workers : UpstreamFail(w, "E_OVERLOADED", 0)
    \/ \E w \in Workers : BackoffWake(w)
    \/ \E w \in Workers : WorkerStart(w)
    \/ \E w \in Workers : WorkerTake(w)
    \/ \E w \in Workers : PaceWake(w)
    \/ Tick(0, MaxRotateTime)

SpecRotate == InitRotate /\ [][NextRotate]_vars

\* C34: with two keys or more, the key of a retry differs from the key of
\* the attempt that failed before it.
C34_RetryRotatesKey ==
    \A t \in Tasks :
       Len(api_keys) >= 2 =>
          \A n \in 1..(Len(inv[t].keys) - 1) :
             inv[t].keys[n + 1] # inv[t].keys[n]

\* C35: the token estimate returned with an answer is the sum of the lengths
\* of the message and of the answer, divided by four.
C35_TokenEstimateOfSum ==
    \A c \in Callers :
        (callers[c].pc = "idle" /\ callers[c].ret = Return
         /\ inv[c].phase = "done" /\ inv[c].outcome = "ok")
        => callers[c].val[2] = (inv[c].message + callers[c].val[1]) \div 4
=============================================================================
